---- MODULE Spec2Model ----
(***************************************************************************)
(* A model of aeneas/exacttiming.py: TimeInterval (classification,         *)
(* intersection, in-place mutators) and TimeIntervalList (add, offset,     *)
(* fix_zero_length_intervals).                                             *)
(*                                                                         *)
(* Time values are exact decimals in the source (TimeValue, a Decimal);    *)
(* the model counts them in whole units of one quantum, so every sum,      *)
(* difference and comparison is exact here as it is there.                 *)
(***************************************************************************)
EXTENDS Integers, Sequences, FiniteSets

VARIABLES
    lbegin,     \* TimeIntervalList.begin: None or Some(value)
    lend,       \* TimeIntervalList.end: None or Some(value)
    items,      \* TimeIntervalList.__intervals: sequence of intervals
    op,         \* the last call on the list: its name and arguments
    pre,        \* __intervals as it was when the last call started
    err,        \* how the last call on the list ended
    runs,       \* the runs the last fix_zero_length_intervals went through
    building,   \* TRUE while the list is being filled: every call so far was add
    scan,       \* the outer iterations the last fix_zero_length_intervals completed
    iv,         \* a free-standing TimeInterval
    ivOp,       \* the last call on iv
    ivErr,      \* how the last call on iv ended
    pa,         \* a pair of free-standing intervals: self
    pb,         \*                                    other
    pRel,       \* the last pa.relative_position_of(pb)
    pInter,     \* the last pa.intersection(pb)
    pAdj        \* the last pa.adjacent_before(pb)

vars == <<lbegin, lend, items, op, pre, err, runs, building, scan,
          iv, ivOp, ivErr, pa, pb, pRel, pInter, pAdj>>

listVars == <<lbegin, lend, items, op, pre, err, runs, building, scan>>
ivVars   == <<iv, ivOp, ivErr>>
pairVars == <<pa, pb, pRel, pInter, pAdj>>

----------------------------------------------------------------------------
(* Bounds of the model *)

MaxTime == 4      \* time values of the intervals handed to the program
MaxLen == 3       \* members of a list
MaxOffset == 2    \* size of a shift and of a repair offset

----------------------------------------------------------------------------
(* Optional values and outcomes *)

None == <<>>
Some(v) == <<v>>
Val(o) == o[1]

OK == "ok"
TypeError == "TypeError"
ValueError == "ValueError"
UnboundLocalError == "UnboundLocalError"

Max(x, y) == IF x >= y THEN x ELSE y
Min(x, y) == IF x <= y THEN x ELSE y

----------------------------------------------------------------------------
(* TimeInterval *)

TimeInterval(b, e) == [begin |-> b, end |-> e]

\* __init__ accepts the pair
ValidInterval(x) == x.begin >= 0 /\ x.begin <= x.end

Times == 0..MaxTime
Intervals == {x \in [begin : Times, end : Times] : ValidInterval(x)}

length(x) == x.end - x.begin
has_zero_length(x) == x.end = x.begin

\* __lt__: the tuples (begin, end) in lexicographic order
Lt(x, y) == x.begin < y.begin \/ (x.begin = y.begin /\ x.end < y.end)

RELATIVE_POSITION_PP_L == 0
RELATIVE_POSITION_PP_C == 1
RELATIVE_POSITION_PP_G == 2
RELATIVE_POSITION_PI_LL == 3
RELATIVE_POSITION_PI_LC == 4
RELATIVE_POSITION_PI_LG == 5
RELATIVE_POSITION_PI_CG == 6
RELATIVE_POSITION_PI_GG == 7
RELATIVE_POSITION_IP_L == 8
RELATIVE_POSITION_IP_B == 9
RELATIVE_POSITION_IP_I == 10
RELATIVE_POSITION_IP_E == 11
RELATIVE_POSITION_IP_G == 12
RELATIVE_POSITION_II_LL == 13
RELATIVE_POSITION_II_LB == 14
RELATIVE_POSITION_II_LI == 15
RELATIVE_POSITION_II_LE == 16
RELATIVE_POSITION_II_LG == 17
RELATIVE_POSITION_II_BI == 18
RELATIVE_POSITION_II_BE == 19
RELATIVE_POSITION_II_BG == 20
RELATIVE_POSITION_II_II == 21
RELATIVE_POSITION_II_IE == 22
RELATIVE_POSITION_II_IG == 23
RELATIVE_POSITION_II_EG == 24
RELATIVE_POSITION_II_GG == 25

\* A slip in the inverse table: the two "touching" span/span entries swapped
\* with the two "disjoint" ones.
INVERSE_RELATIVE_POSITION_Swapped(p) ==
    CASE p = RELATIVE_POSITION_PP_L -> RELATIVE_POSITION_PP_G
      [] p = RELATIVE_POSITION_PP_C -> RELATIVE_POSITION_PP_C
      [] p = RELATIVE_POSITION_PP_G -> RELATIVE_POSITION_PP_L
      [] p = RELATIVE_POSITION_PI_LL -> RELATIVE_POSITION_IP_G
      [] p = RELATIVE_POSITION_PI_LC -> RELATIVE_POSITION_IP_E
      [] p = RELATIVE_POSITION_PI_LG -> RELATIVE_POSITION_IP_I
      [] p = RELATIVE_POSITION_PI_CG -> RELATIVE_POSITION_IP_B
      [] p = RELATIVE_POSITION_PI_GG -> RELATIVE_POSITION_IP_L
      [] p = RELATIVE_POSITION_IP_L -> RELATIVE_POSITION_PI_GG
      [] p = RELATIVE_POSITION_IP_B -> RELATIVE_POSITION_PI_CG
      [] p = RELATIVE_POSITION_IP_I -> RELATIVE_POSITION_PI_LG
      [] p = RELATIVE_POSITION_IP_E -> RELATIVE_POSITION_PI_LC
      [] p = RELATIVE_POSITION_IP_G -> RELATIVE_POSITION_PI_LL
      [] p = RELATIVE_POSITION_II_LL -> RELATIVE_POSITION_II_EG
      [] p = RELATIVE_POSITION_II_LB -> RELATIVE_POSITION_II_GG
      [] p = RELATIVE_POSITION_II_LI -> RELATIVE_POSITION_II_IG
      [] p = RELATIVE_POSITION_II_LE -> RELATIVE_POSITION_II_IE
      [] p = RELATIVE_POSITION_II_LG -> RELATIVE_POSITION_II_II
      [] p = RELATIVE_POSITION_II_BI -> RELATIVE_POSITION_II_BG
      [] p = RELATIVE_POSITION_II_BE -> RELATIVE_POSITION_II_BE
      [] p = RELATIVE_POSITION_II_BG -> RELATIVE_POSITION_II_BI
      [] p = RELATIVE_POSITION_II_II -> RELATIVE_POSITION_II_LG
      [] p = RELATIVE_POSITION_II_IE -> RELATIVE_POSITION_II_LE
      [] p = RELATIVE_POSITION_II_IG -> RELATIVE_POSITION_II_LI
      [] p = RELATIVE_POSITION_II_EG -> RELATIVE_POSITION_II_LL
      [] p = RELATIVE_POSITION_II_GG -> RELATIVE_POSITION_II_LB

INVERSE_RELATIVE_POSITION(p) ==
    CASE p = RELATIVE_POSITION_PP_L -> RELATIVE_POSITION_PP_G
      [] p = RELATIVE_POSITION_PP_C -> RELATIVE_POSITION_PP_C
      [] p = RELATIVE_POSITION_PP_G -> RELATIVE_POSITION_PP_L
      [] p = RELATIVE_POSITION_PI_LL -> RELATIVE_POSITION_IP_G
      [] p = RELATIVE_POSITION_PI_LC -> RELATIVE_POSITION_IP_E
      [] p = RELATIVE_POSITION_PI_LG -> RELATIVE_POSITION_IP_I
      [] p = RELATIVE_POSITION_PI_CG -> RELATIVE_POSITION_IP_B
      [] p = RELATIVE_POSITION_PI_GG -> RELATIVE_POSITION_IP_L
      [] p = RELATIVE_POSITION_IP_L -> RELATIVE_POSITION_PI_GG
      [] p = RELATIVE_POSITION_IP_B -> RELATIVE_POSITION_PI_CG
      [] p = RELATIVE_POSITION_IP_I -> RELATIVE_POSITION_PI_LG
      [] p = RELATIVE_POSITION_IP_E -> RELATIVE_POSITION_PI_LC
      [] p = RELATIVE_POSITION_IP_G -> RELATIVE_POSITION_PI_LL
      [] p = RELATIVE_POSITION_II_LL -> RELATIVE_POSITION_II_GG
      [] p = RELATIVE_POSITION_II_LB -> RELATIVE_POSITION_II_EG
      [] p = RELATIVE_POSITION_II_LI -> RELATIVE_POSITION_II_IG
      [] p = RELATIVE_POSITION_II_LE -> RELATIVE_POSITION_II_IE
      [] p = RELATIVE_POSITION_II_LG -> RELATIVE_POSITION_II_II
      [] p = RELATIVE_POSITION_II_BI -> RELATIVE_POSITION_II_BG
      [] p = RELATIVE_POSITION_II_BE -> RELATIVE_POSITION_II_BE
      [] p = RELATIVE_POSITION_II_BG -> RELATIVE_POSITION_II_BI
      [] p = RELATIVE_POSITION_II_II -> RELATIVE_POSITION_II_LG
      [] p = RELATIVE_POSITION_II_IE -> RELATIVE_POSITION_II_LE
      [] p = RELATIVE_POSITION_II_IG -> RELATIVE_POSITION_II_LI
      [] p = RELATIVE_POSITION_II_EG -> RELATIVE_POSITION_II_LB
      [] p = RELATIVE_POSITION_II_GG -> RELATIVE_POSITION_II_LL

\* self.relative_position_of(other)
relative_position_of(self, other) ==
    IF has_zero_length(self)
    THEN IF has_zero_length(other)
         THEN \* TABLE 1
              IF other.begin < self.begin THEN RELATIVE_POSITION_PP_L
              ELSE IF other.begin = self.begin THEN RELATIVE_POSITION_PP_C
              ELSE RELATIVE_POSITION_PP_G
         ELSE \* TABLE 2
              IF other.end < self.begin THEN RELATIVE_POSITION_PI_LL
              ELSE IF other.end = self.begin THEN RELATIVE_POSITION_PI_LC
              ELSE IF other.begin < self.begin THEN RELATIVE_POSITION_PI_LG
              ELSE IF other.begin = self.begin THEN RELATIVE_POSITION_PI_CG
              ELSE RELATIVE_POSITION_PI_GG
    ELSE IF has_zero_length(other)
         THEN \* TABLE 3
              IF other.begin < self.begin THEN RELATIVE_POSITION_IP_L
              ELSE IF other.begin = self.begin THEN RELATIVE_POSITION_IP_B
              ELSE IF other.begin < self.end THEN RELATIVE_POSITION_IP_I
              ELSE IF other.begin = self.end THEN RELATIVE_POSITION_IP_E
              ELSE RELATIVE_POSITION_IP_G
         ELSE IF other.begin < self.begin
              THEN \* TABLE 4
                   IF other.end < self.begin THEN RELATIVE_POSITION_II_LL
                   ELSE IF other.end = self.begin THEN RELATIVE_POSITION_II_LB
                   ELSE IF other.end < self.end THEN RELATIVE_POSITION_II_LI
                   ELSE IF other.end = self.end THEN RELATIVE_POSITION_II_LE
                   ELSE RELATIVE_POSITION_II_LG
              ELSE IF other.begin = self.begin
              THEN \* TABLE 5
                   IF other.end < self.end THEN RELATIVE_POSITION_II_BI
                   ELSE IF other.end = self.end THEN RELATIVE_POSITION_II_BE
                   ELSE RELATIVE_POSITION_II_BG
              ELSE IF other.begin < self.end
              THEN \* TABLE 6
                   IF other.end < self.end THEN RELATIVE_POSITION_II_II
                   ELSE IF other.end = self.end THEN RELATIVE_POSITION_II_IE
                   ELSE RELATIVE_POSITION_II_IG
              ELSE IF other.begin = self.end
              THEN \* TABLE 7
                   RELATIVE_POSITION_II_EG
              ELSE \* TABLE 8
                   RELATIVE_POSITION_II_GG

\* self.relative_position_wrt(other)
relative_position_wrt(self, other) ==
    INVERSE_RELATIVE_POSITION(relative_position_of(self, other))

\* A slip in intersection: the "touching at self.end" cases answered with
\* self.begin, like the list of cases before them.
intersection_BeginForEnd(self, other) ==
    LET relative_position == relative_position_of(self, other) IN
    IF relative_position \in {
            RELATIVE_POSITION_PP_C, RELATIVE_POSITION_PI_LC,
            RELATIVE_POSITION_PI_LG, RELATIVE_POSITION_PI_CG,
            RELATIVE_POSITION_IP_B, RELATIVE_POSITION_II_LB,
            RELATIVE_POSITION_IP_E, RELATIVE_POSITION_II_EG}
    THEN Some(TimeInterval(self.begin, self.begin))
    ELSE IF relative_position \in {
            RELATIVE_POSITION_II_BI, RELATIVE_POSITION_II_BE,
            RELATIVE_POSITION_II_II, RELATIVE_POSITION_II_IE}
    THEN Some(TimeInterval(other.begin, other.end))
    ELSE IF relative_position \in {
            RELATIVE_POSITION_IP_I, RELATIVE_POSITION_II_LI,
            RELATIVE_POSITION_II_LE, RELATIVE_POSITION_II_LG,
            RELATIVE_POSITION_II_BG, RELATIVE_POSITION_II_IG}
    THEN Some(TimeInterval(Max(self.begin, other.begin), Min(self.end, other.end)))
    ELSE None

\* A slip in intersection: self returned where other is nested in it.
intersection_NestedIsSelf(self, other) ==
    LET relative_position == relative_position_of(self, other) IN
    IF relative_position \in {
            RELATIVE_POSITION_PP_C, RELATIVE_POSITION_PI_LC,
            RELATIVE_POSITION_PI_LG, RELATIVE_POSITION_PI_CG,
            RELATIVE_POSITION_IP_B, RELATIVE_POSITION_II_LB}
    THEN Some(TimeInterval(self.begin, self.begin))
    ELSE IF relative_position \in {
            RELATIVE_POSITION_IP_E, RELATIVE_POSITION_II_EG}
    THEN Some(TimeInterval(self.end, self.end))
    ELSE IF relative_position \in {
            RELATIVE_POSITION_II_BI, RELATIVE_POSITION_II_BE,
            RELATIVE_POSITION_II_II, RELATIVE_POSITION_II_IE}
    THEN Some(TimeInterval(self.begin, self.end))
    ELSE IF relative_position \in {
            RELATIVE_POSITION_IP_I, RELATIVE_POSITION_II_LI,
            RELATIVE_POSITION_II_LE, RELATIVE_POSITION_II_LG,
            RELATIVE_POSITION_II_BG, RELATIVE_POSITION_II_IG}
    THEN Some(TimeInterval(Max(self.begin, other.begin), Min(self.end, other.end)))
    ELSE None

\* self.intersection(other): None, or Some(the new interval)
intersection(self, other) ==
    LET relative_position == relative_position_of(self, other) IN
    IF relative_position \in {
            RELATIVE_POSITION_PP_C, RELATIVE_POSITION_PI_LC,
            RELATIVE_POSITION_PI_LG, RELATIVE_POSITION_PI_CG,
            RELATIVE_POSITION_IP_B, RELATIVE_POSITION_II_LB}
    THEN Some(TimeInterval(self.begin, self.begin))
    ELSE IF relative_position \in {
            RELATIVE_POSITION_IP_E, RELATIVE_POSITION_II_EG}
    THEN Some(TimeInterval(self.end, self.end))
    ELSE IF relative_position \in {
            RELATIVE_POSITION_II_BI, RELATIVE_POSITION_II_BE,
            RELATIVE_POSITION_II_II, RELATIVE_POSITION_II_IE}
    THEN Some(TimeInterval(other.begin, other.end))
    ELSE IF relative_position \in {
            RELATIVE_POSITION_IP_I, RELATIVE_POSITION_II_LI,
            RELATIVE_POSITION_II_LE, RELATIVE_POSITION_II_LG,
            RELATIVE_POSITION_II_BG, RELATIVE_POSITION_II_IG}
    THEN Some(TimeInterval(Max(self.begin, other.begin), Min(self.end, other.end)))
    ELSE None

\* self.overlaps(other)
overlaps(self, other) == intersection(self, other) # None

\* A slip in adjacent_before: any other that begins no later than self ends.
adjacent_before_NotAfter(self, other) == self.end >= other.begin

\* self.adjacent_before(other)
adjacent_before(self, other) == self.end = other.begin

\* self.adjacent_after(other)
adjacent_after(self, other) == self.begin = other.end

----------------------------------------------------------------------------
(* TimeInterval: the in-place mutators.  Each returns the interval as the  *)
(* call leaves it and how the call ended.                                  *)

Res(x, e) == [err |-> e, iv |-> x]

\* self.offset(offset, allow_negative, min_begin_value, max_end_value);
\* offset is None when the argument is not a TimeValue
offset(self, off, allow_negative, min_begin_value, max_end_value) ==
    IF off = None THEN Res(self, TypeError)
    ELSE
    LET b1 == self.begin + Val(off)
        e1 == self.end + Val(off)
        b2 == IF ~allow_negative THEN Max(b1, 0) ELSE b1
        e2 == IF ~allow_negative THEN Max(e1, 0) ELSE e1
        clamp == min_begin_value # None /\ max_end_value # None
        b3 == IF clamp
              THEN Min(Max(b2, Val(min_begin_value)), Val(max_end_value))
              ELSE b2
        e3 == IF clamp THEN Min(e2, Val(max_end_value)) ELSE e2
    IN Res(TimeInterval(b3, e3), OK)

\* A slip in shrink: the quantity taken from the other side.
shrink_WrongSide(self, quantity, from_begin) ==
    IF quantity <= 0 THEN Res(self, ValueError)
    ELSE IF quantity > length(self) THEN Res(self, ValueError)
    ELSE IF ~from_begin
         THEN Res(TimeInterval(self.end - length(self) + quantity, self.end), OK)
         ELSE Res(TimeInterval(self.begin, self.begin + length(self) - quantity), OK)

\* self.shrink(quantity, from_begin)
shrink(self, quantity, from_begin) ==
    IF quantity <= 0 THEN Res(self, ValueError)
    ELSE IF quantity > length(self) THEN Res(self, ValueError)
    ELSE IF from_begin
         THEN Res(TimeInterval(self.end - length(self) + quantity, self.end), OK)
         ELSE Res(TimeInterval(self.begin, self.begin + length(self) - quantity), OK)

\* A slip in enlarge: the quantity added on the other side.
enlarge_WrongSide(self, quantity, from_begin) ==
    IF quantity <= 0 THEN Res(self, ValueError)
    ELSE IF ~from_begin
         THEN Res(TimeInterval(self.begin - quantity, self.end), OK)
         ELSE Res(TimeInterval(self.begin, self.end + quantity), OK)

\* self.enlarge(quantity, from_begin)
enlarge(self, quantity, from_begin) ==
    IF quantity <= 0 THEN Res(self, ValueError)
    ELSE IF from_begin
         THEN Res(TimeInterval(self.begin - quantity, self.end), OK)
         ELSE Res(TimeInterval(self.begin, self.end + quantity), OK)

\* A slip in move_end_at: the end moved, the begin left where it was.
move_end_at_KeepBegin(self, point) ==
    IF point < self.begin THEN Res(self, ValueError)
    ELSE Res(TimeInterval(self.begin, point), OK)

\* self.move_end_at(point)
move_end_at(self, point) ==
    IF point < self.begin THEN Res(self, ValueError)
    ELSE Res(TimeInterval(point - length(self), point), OK)

\* self.move_begin_at(point)
move_begin_at(self, point) ==
    IF point > self.end THEN Res(self, ValueError)
    ELSE Res(TimeInterval(point, point + length(self)), OK)

----------------------------------------------------------------------------
(* TimeIntervalList *)

\* A slip in the table: a point member strictly inside the other span let
\* through.
ALLOWED_POSITIONS_PointInside == {
    RELATIVE_POSITION_PP_L, RELATIVE_POSITION_PP_C, RELATIVE_POSITION_PP_G,
    RELATIVE_POSITION_PI_LL, RELATIVE_POSITION_PI_LC, RELATIVE_POSITION_PI_LG,
    RELATIVE_POSITION_PI_CG,
    RELATIVE_POSITION_PI_GG, RELATIVE_POSITION_IP_L, RELATIVE_POSITION_IP_B,
    RELATIVE_POSITION_IP_E, RELATIVE_POSITION_IP_G, RELATIVE_POSITION_II_LL,
    RELATIVE_POSITION_II_LB, RELATIVE_POSITION_II_EG, RELATIVE_POSITION_II_GG}

ALLOWED_POSITIONS == {
    RELATIVE_POSITION_PP_L, RELATIVE_POSITION_PP_C, RELATIVE_POSITION_PP_G,
    RELATIVE_POSITION_PI_LL, RELATIVE_POSITION_PI_LC, RELATIVE_POSITION_PI_CG,
    RELATIVE_POSITION_PI_GG, RELATIVE_POSITION_IP_L, RELATIVE_POSITION_IP_B,
    RELATIVE_POSITION_IP_E, RELATIVE_POSITION_IP_G, RELATIVE_POSITION_II_LL,
    RELATIVE_POSITION_II_LB, RELATIVE_POSITION_II_EG, RELATIVE_POSITION_II_GG}

\* Python indexes from 0: self[i]
At(s, i) == s[i + 1]
Put(s, i, x) == [s EXCEPT ![i + 1] = x]

\* An argument of add: a TimeInterval, or an object of another kind
IntervalArg(x) == [iv |-> x, isInterval |-> TRUE]
OtherArg == [iv |-> TimeInterval(0, 0), isInterval |-> FALSE]

\* self._check_boundaries(interval): how it ends
_check_boundaries(lb, le, arg) ==
    IF ~arg.isInterval THEN TypeError
    ELSE IF lb # None /\ arg.iv.begin < Val(lb) THEN ValueError
    ELSE IF le # None /\ arg.iv.end > Val(le) THEN ValueError
    ELSE OK

\* self._check_overlap(interval): how it ends
_check_overlap(s, interval) ==
    IF \E k \in 1..Len(s) :
         relative_position_of(s[k], interval) \notin ALLOWED_POSITIONS
    THEN ValueError
    ELSE OK

\* sorted(...) inserts each element behind those not greater than it
RECURSIVE InsertSorted(_, _)
InsertSorted(s, x) ==
    IF s = <<>> THEN <<x>>
    ELSE IF Lt(x, Head(s)) THEN <<x>> \o s
    ELSE <<Head(s)>> \o InsertSorted(Tail(s), x)

RECURSIVE sorted(_)
sorted(s) ==
    IF s = <<>> THEN <<>>
    ELSE InsertSorted(sorted(SubSeq(s, 1, Len(s) - 1)), s[Len(s)])

ListRes(s, e) == [items |-> s, err |-> e]

\* A slip in add: the interval appended before it is checked for overlap.
add_AppendFirst(s, lb, le, arg, sort) ==
    LET e1 == _check_boundaries(lb, le, arg) IN
    IF e1 # OK THEN ListRes(s, e1)
    ELSE LET e2 == _check_overlap(s, arg.iv) IN
         IF e2 # OK THEN ListRes(Append(s, arg.iv), e2)
         ELSE ListRes(IF sort THEN sorted(Append(s, arg.iv))
                              ELSE Append(s, arg.iv), OK)

\* A slip in add: the new interval put in front instead of sorted in.
add_Prepend(s, lb, le, arg, sort) ==
    LET e1 == _check_boundaries(lb, le, arg) IN
    IF e1 # OK THEN ListRes(s, e1)
    ELSE LET e2 == _check_overlap(s, arg.iv) IN
         IF e2 # OK THEN ListRes(s, e2)
         ELSE ListRes(<<arg.iv>> \o s, OK)

\* self.add(interval, sort)
add(s, lb, le, arg, sort) ==
    LET e1 == _check_boundaries(lb, le, arg) IN
    IF e1 # OK THEN ListRes(s, e1)
    ELSE LET e2 == _check_overlap(s, arg.iv) IN
         IF e2 # OK THEN ListRes(s, e2)
         ELSE ListRes(IF sort THEN sorted(Append(s, arg.iv))
                              ELSE Append(s, arg.iv), OK)

\* self.offset(offset): every member in turn; the first failing call ends it
RECURSIVE list_offset_from(_, _, _, _, _)
list_offset_from(s, k, off, lb, le) ==
    IF k > Len(s) THEN ListRes(s, OK)
    ELSE LET r == offset(s[k], off, FALSE, lb, le) IN
         IF r.err # OK THEN ListRes(s, r.err)
         ELSE list_offset_from([s EXCEPT ![k] = r.iv], k + 1, off, lb, le)

list_offset(s, off, lb, le) == list_offset_from(s, 1, off, lb, le)

----------------------------------------------------------------------------
(* TimeIntervalList.fix_zero_length_intervals *)

Move(index, t, q) == [index |-> index, t |-> t, q |-> q]

\* The inner while loop (lines 815-821): the run is extended through
\* zero-length members and through members shorter than the slack.
\* A "M" move carries no quantity (None in the source); 0 stands for it.
RECURSIVE ScanRun(_, _, _, _, _, _)
ScanRun(s, j, slack, moves, off, max_index) ==
    IF j < max_index /\ length(At(s, j)) < slack
    THEN IF has_zero_length(At(s, j))
         THEN ScanRun(s, j + 1, slack + off,
                      Append(moves, Move(j, "E", off)), off, max_index)
         ELSE ScanRun(s, j + 1, slack,
                      Append(moves, Move(j, "M", 0)), off, max_index)
    ELSE [j |-> j, slack |-> slack, moves |-> moves]

MovesRes(s, e, ct) == [items |-> s, err |-> e, current_time |-> ct]

\* for index, t, q in moves[::-1] (lines 831-837); current_time is None
\* while the local variable is unbound
RECURSIVE ApplyMoves(_, _, _, _)
ApplyMoves(s, moves, k, current_time) ==
    IF k = 0 THEN MovesRes(s, OK, current_time)
    ELSE IF current_time = None THEN MovesRes(s, UnboundLocalError, current_time)
    ELSE
    LET m == moves[k]
        r1 == move_end_at(At(s, m.index), Val(current_time))
    IN  IF r1.err # OK THEN MovesRes(s, r1.err, current_time)
        ELSE IF m.t = "M"
        THEN ApplyMoves(Put(s, m.index, r1.iv), moves, k - 1, Some(r1.iv.begin))
        ELSE LET r2 == enlarge(r1.iv, m.q, TRUE) IN
             IF r2.err # OK
             THEN MovesRes(Put(s, m.index, r1.iv), r2.err, current_time)
             ELSE ApplyMoves(Put(s, m.index, r2.iv), moves, k - 1,
                             Some(r2.iv.begin))

\* fixable as line 822 sets it before the two branches
fixable_initial == TRUE

\* One run as the log keeps it: where it started, where it stopped, how it
\* ended ("edge": lines 823-825, "absorb": lines 826-829, "none": neither),
\* the slack it needed and the number of zero-length members in it.
Run(i, j, kind, slack, moves) ==
    [i |-> i, j |-> j, slack |-> slack, kind |-> kind,
     zeros |-> Cardinality({k \in 1..Len(moves) : moves[k].t = "E"})]

FixRes(s, e, rs, sn) == [items |-> s, err |-> e, runs |-> rs, scan |-> sn]

\* One completed iteration of the outer loop as the log keeps it: the index
\* it looked at, the index the next iteration looks at, and the list as
\* the iteration left it.
Step(i, next, s) == [items |-> s, i |-> i, next |-> next]

\* A slip at line 841: the scan not moved past the run.
Resume_SameIndex(i, j) == i

\* i = j - 1 (line 841) followed by i += 1 (line 842)
Resume(i, j) == (j - 1) + 1

\* The outer while loop (lines 810-842) from index i on.
\* le is the list's end, p2 tells Python 2 from Python 3: comparing a
\* TimeValue with None raises TypeError in Python 3 and is False in Python 2.
RECURSIVE FixFrom(_, _, _, _, _, _, _, _, _)
FixFrom(s, i, current_time, rs, sn, off, max_index, le, p2) ==
    IF ~(i < max_index) THEN FixRes(s, OK, rs, sn)
    ELSE IF ~has_zero_length(At(s, i))
    THEN FixFrom(s, i + 1, current_time, rs, Append(sn, Step(i, i + 1, s)),
                 off, max_index, le, p2)
    ELSE
    LET sc == ScanRun(s, i + 1, off, <<Move(i, "E", off)>>, off, max_index)
        j == sc.j
        slack == sc.slack
    IN
    IF j = max_index /\ le = None /\ ~p2
    THEN FixRes(s, TypeError, Append(rs, Run(i, j, "none", slack, sc.moves)), sn)
    ELSE
    LET atEdge == j = max_index /\ le # None
                    /\ At(s, j - 1).end + slack <= Val(le)
        absorb == ~atEdge /\ j < max_index
        sh == IF absorb THEN shrink(At(s, j), slack, TRUE)
                        ELSE Res(TimeInterval(0, 0), OK)
        kind == IF atEdge THEN "edge" ELSE IF absorb THEN "absorb" ELSE "none"
        runs1 == Append(rs, Run(i, j, kind, slack, sc.moves))
    IN
    IF sh.err # OK THEN FixRes(s, sh.err, runs1, sn)
    ELSE
    LET s1 == IF absorb THEN Put(s, j, sh.iv) ELSE s
        ct1 == IF atEdge THEN Some(At(s, j - 1).end + slack)
               ELSE IF absorb THEN Some(sh.iv.begin)
               ELSE current_time
        fixable == atEdge \/ absorb \/ fixable_initial
        next == Resume(i, j)
    IN
    IF fixable
    THEN LET ap == ApplyMoves(s1, sc.moves, Len(sc.moves), ct1) IN
         IF ap.err # OK THEN FixRes(ap.items, ap.err, runs1, sn)
         ELSE FixFrom(ap.items, next, ap.current_time, runs1,
                      Append(sn, Step(i, next, ap.items)),
                      off, max_index, le, p2)
    ELSE FixFrom(s1, next, ct1, runs1, Append(sn, Step(i, next, s1)),
                 off, max_index, le, p2)

\* min_index = min_index or 0 (line 807)
EffectiveMin(s, min_index) ==
    IF min_index = None \/ Val(min_index) = 0 THEN 0 ELSE Val(min_index)

\* max_index = max_index or len(self) (line 808)
EffectiveMax(s, max_index) ==
    IF max_index = None \/ Val(max_index) = 0 THEN Len(s) ELSE Val(max_index)

\* self.fix_zero_length_intervals(offset, min_index, max_index)
fix_zero_length_intervals(s, off, min_index, max_index, le, p2) ==
    FixFrom(s, EffectiveMin(s, min_index), None, <<>>, <<>>, off,
            EffectiveMax(s, max_index), le, p2)

----------------------------------------------------------------------------------------------------------------------------------------
(* The list under its callers: a TimeIntervalList is created empty with    *)
(* optional bounds, is filled by add calls (sort left at its default), and *)
(* then receives an offset or a fix_zero_length_intervals call.  Every     *)
(* list that satisfies the class's constraints and fits the bounds of the  *)
(* model is reached by the add calls alone.                                *)
(*                                                                         *)
(* op, pre, err and runs describe the last call that was observed.  Spec   *)
(* observes the offset and fix_zero_length_intervals calls, SpecAdd the    *)
(* add calls.                                                              *)

ListBegins == {None, Some(0), Some(1)}
ListEnds == {None, Some(MaxTime - 1)}

Call(name, arg, sort, x, lo, hi) ==
    [x |-> x, arg |-> arg, sort |-> sort, name |-> name, lo |-> lo, hi |-> hi]
NoCall == Call("new", OtherArg, TRUE, None, None, None)

Snapshot == [items |-> items, begin |-> lbegin, end |-> lend]

\* Values stay in the window the model explores
InWindow(s) ==
    \A k \in 1..Len(s) :
        /\ s[k].begin \in (0 - MaxTime)..MaxTime
        /\ s[k].end \in (0 - MaxTime)..MaxTime

IdleInterval ==
    /\ iv = TimeInterval(0, 0)
    /\ ivOp = NoCall
    /\ ivErr = OK
IdlePair ==
    /\ pa = TimeInterval(0, 0)
    /\ pb = TimeInterval(0, 0)
    /\ pRel = None
    /\ pInter = None
    /\ pAdj = None
IdleList ==
    /\ lbegin = Some(0)
    /\ lend = None
    /\ items = <<>>
    /\ op = NoCall
    /\ pre = [items |-> <<>>, begin |-> Some(0), end |-> None]
    /\ err = OK
    /\ runs = <<>>
    /\ building = TRUE
    /\ scan = <<>>

\* TimeIntervalList.__init__ (lines 706-718)
Init ==
    /\ lbegin \in ListBegins
    /\ lend \in ListEnds
    /\ (lbegin # None /\ lend # None) => Val(lbegin) <= Val(lend)
    /\ items = <<>>
    /\ op = NoCall
    /\ pre = [items |-> <<>>, begin |-> lbegin, end |-> lend]
    /\ err = OK
    /\ runs = <<>>
    /\ building = TRUE
    /\ scan = <<>>
    /\ IdleInterval
    /\ IdlePair

\* add(interval, sort), observed
Add(arg, sort) ==
    LET r == add(items, lbegin, lend, arg, sort) IN
    /\ building
    /\ Len(r.items) <= MaxLen
    /\ items' = r.items
    /\ err' = r.err
    /\ op' = Call("add", arg, sort, None, None, None)
    /\ pre' = Snapshot
    /\ UNCHANGED <<lbegin, lend, runs, building, scan>>
    /\ UNCHANGED <<ivVars, pairVars>>

\* add(interval) while the list is filled, not observed: a call that fails
\* leaves no trace
Fill(x) ==
    LET r == add(items, lbegin, lend, IntervalArg(x), TRUE) IN
    /\ building
    /\ r.err = OK
    /\ Len(r.items) <= MaxLen
    /\ items' = r.items
    /\ UNCHANGED <<lbegin, lend, op, pre, err, runs, building, scan>>
    /\ UNCHANGED <<ivVars, pairVars>>

\* offset(offset), observed
Offset(off) ==
    LET r == list_offset(items, off, lbegin, lend) IN
    /\ building
    /\ InWindow(r.items)
    /\ items' = r.items
    /\ err' = r.err
    /\ op' = Call("offset", OtherArg, TRUE, off, None, None)
    /\ pre' = Snapshot
    /\ runs' = <<>>
    /\ scan' = <<>>
    /\ building' = FALSE
    /\ UNCHANGED <<lbegin, lend>>
    /\ UNCHANGED <<ivVars, pairVars>>

\* fix_zero_length_intervals(offset, min_index, max_index), observed.
\* PY2 (line 45) is what the interpreter makes it: the call runs under
\* Python 2 (p2) or under Python 3.
Fix(off, lo, hi, p2) ==
    LET r == fix_zero_length_intervals(items, off, lo, hi, lend, p2) IN
    /\ building
    /\ InWindow(r.items)
    /\ items' = r.items
    /\ err' = r.err
    /\ op' = Call("fix", OtherArg, TRUE, Some(off), lo, hi)
    /\ pre' = Snapshot
    /\ runs' = r.runs
    /\ scan' = r.scan
    /\ building' = FALSE
    /\ UNCHANGED <<lbegin, lend>>
    /\ UNCHANGED <<ivVars, pairVars>>

Sorts == {TRUE}
\* the two interpreters differ only where a TimeValue meets None
Interpreters == IF lend = None THEN BOOLEAN ELSE {FALSE}
Shifts == {None} \cup {Some(d) : d \in (0 - MaxOffset)..MaxOffset}
Indexes == {None} \cup {Some(n) : n \in 0..Len(items)}

Next ==
    \/ \E x \in Intervals : Fill(x)
    \/ \E off \in Shifts : Offset(off)
    \/ \E off \in 1..MaxOffset, lo \in Indexes, hi \in Indexes, p2 \in Interpreters :
          /\ (lo # None /\ hi # None) => Val(lo) <= Val(hi)
          /\ Fix(off, lo, hi, p2)

Spec == Init /\ [][Next]_vars

NextAdd ==
    \/ \E x \in Intervals, sort \in Sorts : Add(IntervalArg(x), sort)
    \/ \E sort \in Sorts : Add(OtherArg, sort)

SpecAdd == Init /\ [][NextAdd]_vars

----------------------------------------------------------------------------
(* A free-standing TimeInterval under its callers: constructed, then       *)
(* moved, shrunk and enlarged by any sequence of calls.                    *)

InitInterval ==
    /\ iv \in Intervals
    /\ ivOp = NoCall
    /\ ivErr = OK
    /\ IdleList
    /\ IdlePair

\* The call `name` with result r; flag, x, lo and hi are its arguments
IvCall(name, r, flag, x, lo, hi) ==
    /\ InWindow(<<r.iv>>)
    /\ iv' = r.iv
    /\ ivErr' = r.err
    /\ ivOp' = Call(name, OtherArg, flag, x, lo, hi)
    /\ UNCHANGED <<listVars, pairVars>>

IvOffset(off, allow_negative, min_begin_value, max_end_value) ==
    IvCall("offset", offset(iv, off, allow_negative, min_begin_value, max_end_value),
           allow_negative, off, min_begin_value, max_end_value)

IvShrink(quantity, from_begin) ==
    IvCall("shrink", shrink(iv, quantity, from_begin),
           from_begin, Some(quantity), None, None)

IvEnlarge(quantity, from_begin) ==
    IvCall("enlarge", enlarge(iv, quantity, from_begin),
           from_begin, Some(quantity), None, None)

IvMoveEndAt(point) ==
    IvCall("move_end_at", move_end_at(iv, point), TRUE, Some(point), None, None)

IvMoveBeginAt(point) ==
    IvCall("move_begin_at", move_begin_at(iv, point), TRUE, Some(point), None, None)

Clamps == {None, Some(1), Some(MaxTime - 1)}
Quantities == (0 - 1)..MaxOffset
Points == (0 - 1)..MaxTime

NextInterval ==
    \/ \E off \in Shifts, an \in BOOLEAN, lo \in Clamps, hi \in Clamps :
          IvOffset(off, an, lo, hi)
    \/ \E q \in Quantities, fb \in BOOLEAN : IvShrink(q, fb)
    \/ \E q \in Quantities, fb \in BOOLEAN : IvEnlarge(q, fb)
    \/ \E point \in Points : IvMoveEndAt(point)
    \/ \E point \in Points : IvMoveBeginAt(point)

SpecInterval == InitInterval /\ [][NextInterval]_vars

----------------------------------------------------------------------------
(* Two free-standing intervals, classified and intersected.                *)

InitPair ==
    /\ pa \in Intervals
    /\ pb \in Intervals
    /\ pRel = None
    /\ pInter = None
    /\ pAdj = None
    /\ IdleList
    /\ IdleInterval

\* pa.relative_position_of(pb) and pa.relative_position_wrt(pb)
Classify ==
    /\ pRel' = Some([of |-> relative_position_of(pa, pb),
                     wrt |-> relative_position_wrt(pa, pb)])
    /\ UNCHANGED <<pa, pb, pInter, pAdj, listVars, ivVars>>

\* pa.intersection(pb), pb.intersection(pa) and pa.overlaps(pb)
Intersect ==
    /\ pInter' = Some([overlaps |-> overlaps(pa, pb),
                       ab |-> intersection(pa, pb),
                       ba |-> intersection(pb, pa)])
    /\ UNCHANGED <<pa, pb, pRel, pAdj, listVars, ivVars>>

\* pa.adjacent_before(pb) and pa.adjacent_after(pb), followed by
\* pa.intersection(pb)
Adjacent ==
    /\ pAdj' = Some([before |-> adjacent_before(pa, pb),
                     after |-> adjacent_after(pa, pb),
                     inter |-> intersection(pa, pb)])
    /\ UNCHANGED <<pa, pb, pRel, pInter, listVars, ivVars>>

NextPair == Classify \/ Intersect \/ Adjacent

SpecPair == InitPair /\ [][NextPair]_vars

----------------------------------------------------------------------------
(* The constraints of a TimeIntervalList (class docstring, lines 665-667)  *)

\* the list is kept sorted, by (begin, end)
Sorted(s) == \A k \in 1..(Len(s) - 1) : ~Lt(s[k + 1], s[k])

\* two time intervals can only overlap at the boundary
PairsAllowed(s) ==
    \A x \in 1..Len(s), y \in 1..Len(s) :
        x # y => relative_position_of(s[x], s[y]) \in ALLOWED_POSITIONS

\* each interval is within the list begin and end times
WithinBounds(s, lb, le) ==
    \A k \in 1..Len(s) :
        /\ lb # None => s[k].begin >= Val(lb)
        /\ le # None => s[k].end <= Val(le)

ListInvariants(s, lb, le) ==
    WithinBounds(s, lb, le) /\ PairsAllowed(s) /\ Sorted(s)

\* "this function assumes that intervals are consecutive" (line 805)
Consecutive(s) == \A k \in 1..(Len(s) - 1) : s[k].end = s[k + 1].begin

\* The last observed call was fix_zero_length_intervals on a list that
\* satisfied the constraints
FixedValidList ==
    op.name = "fix" /\ ListInvariants(pre.items, pre.begin, pre.end)

\* The index range the last fix_zero_length_intervals scanned, as
\* positions of the sequence
Scanned ==
    (EffectiveMin(pre.items, op.lo) + 1)..EffectiveMax(pre.items, op.hi)

\* The list as the outer iteration logged at position t found it
Before(t) == IF t = 1 THEN pre.items ELSE scan[t - 1].items

\* The run r of the log was repaired by the iteration logged at position t
\* and ended at an absorbing member
RepairedAbsorbed(r, t) ==
    /\ r \in 1..Len(runs) /\ t \in 1..Len(scan)
    /\ runs[r].kind = "absorb"
    /\ scan[t].i = runs[r].i

----------------------------------------------------------------------------
(* Claims *)

\* C1: starting from an empty list, after any sequence of add calls with
\* sort left at its default, the members are sorted ascending by
\* (begin, end) and every pair of distinct members is in an allowed
\* relative position, in both directions.
C1_SortedAndAllowed == Sorted(items) /\ PairsAllowed(items)

\* An add that put its interval in front of those already there, touching
\* the next member.
C1_Witness ==
    /\ op.name = "add" /\ err = OK
    /\ Len(items) >= 3
    /\ items = <<op.arg.iv>> \o pre.items
    /\ items[1].end = items[2].begin

\* C2: an add call that fails leaves the list as it was: the same members
\* in the same order and the same list bounds.
C2_FailedAddChangesNothing ==
    (op.name = "add" /\ err # OK) =>
        (items = pre.items /\ lbegin = pre.begin /\ lend = pre.end)

\* An add that passed the boundary check and failed on an overlap.
C2_Witness ==
    /\ op.name = "add" /\ err = ValueError
    /\ pre.items # <<>>
    /\ _check_boundaries(pre.begin, pre.end, op.arg) = OK
    /\ _check_overlap(pre.items, op.arg.iv) = ValueError

\* C3: fix_zero_length_intervals with a positive offset never raises on a
\* list that satisfies the list invariants, with or without an end bound.
C3_FixNeverRaises == FixedValidList => err = OK

\* C4: if the list satisfies its three invariants before
\* fix_zero_length_intervals, all three hold over the whole list after the
\* call returns.
C4_FixPreservesInvariants ==
    (FixedValidList /\ err = OK) => ListInvariants(items, lbegin, lend)

\* C5: after offset(shift) every member is within the list bounds that
\* are set.
C5_OffsetKeepsBounds ==
    (op.name = "offset" /\ err = OK) => WithinBounds(items, lbegin, lend)

\* C6: after every mutator call on a TimeInterval that returns normally,
\* begin >= 0 and begin <= end.  Stated here for begin <= end, which no
\* argument of any mutator is documented to give up.
C6_BeginAtMostEnd ==
    (ivOp.name # "new" /\ ivErr = OK) => iv.begin <= iv.end

\* C7: when fix_zero_length_intervals returns normally, every member of
\* the scanned index range that had zero length before the call has length
\* exactly offset after it.
C7_ZeroLengthGetsOffset ==
    (op.name = "fix" /\ err = OK) =>
        \A k \in Scanned :
            has_zero_length(pre.items[k]) => length(items[k]) = Val(op.x)

\* A call that returned normally after a run of at least two zero-length
\* members that ended at an absorbing member.
C7_Witness ==
    /\ op.name = "fix" /\ err = OK
    /\ \E r \in 1..Len(runs) :
          /\ runs[r].kind = "absorb"
          /\ runs[r].zeros >= 2
          /\ \A k \in (runs[r].i + 1)..runs[r].j :
                k \in Scanned
                /\ (has_zero_length(pre.items[k]) => length(items[k]) = Val(op.x))

\* C8 as stated: fix_zero_length_intervals leaves the begin of the first
\* member and the end of the last member as they were, for every list that
\* satisfies the list invariants, however a run ends.
C8_SpanPreserved ==
    (FixedValidList /\ err = OK /\ pre.items # <<>>) =>
        /\ items[1].begin = pre.items[1].begin
        /\ items[Len(items)].end = pre.items[Len(items)].end

\* C8 as amended: on a list that satisfies the list invariants and whose
\* members are consecutive, the begin of the first member and the end of
\* the last are left as they were when every run ends at an absorbing
\* member; a run that ends at the end of the index range moves the end of
\* its last member right by the slack of the run.
C8_SpanPreservedWhenAbsorbed ==
    /\ (/\ FixedValidList /\ pre.items # <<>>
        /\ Consecutive(pre.items)
        /\ \A r \in 1..Len(runs) : runs[r].kind = "absorb")
       => /\ items[1].begin = pre.items[1].begin
          /\ items[Len(items)].end = pre.items[Len(items)].end
    /\ (FixedValidList /\ err = OK)
       => \A r \in 1..Len(runs) :
             runs[r].kind = "edge" =>
                items[runs[r].j].end = pre.items[runs[r].j].end + runs[r].slack

\* A repair of a consecutive list whose first member had zero length and
\* whose run took in a second member before the absorbing one.
C8_Witness ==
    /\ FixedValidList /\ err = OK
    /\ Consecutive(pre.items)
    /\ Len(pre.items) >= 3
    /\ has_zero_length(pre.items[1])
    /\ runs # <<>>
    /\ \A r \in 1..Len(runs) : runs[r].kind = "absorb"
    /\ runs[1].i = 0 /\ runs[1].j = 2
    /\ items[1].begin = pre.items[1].begin
    /\ items # pre.items

\* C9: a.relative_position_wrt(b), the inverse table applied to
\* a.relative_position_of(b), is b.relative_position_of(a).
C9_InverseIsSymmetric ==
    pRel # None => Val(pRel).wrt = relative_position_of(pb, pa)

\* Two spans of which the other starts before self and ends inside it.
C9_Witness ==
    /\ pRel # None
    /\ Val(pRel).of = RELATIVE_POSITION_II_LI
    /\ Val(pRel).wrt = RELATIVE_POSITION_II_IG

\* C10: a.intersection(b) and b.intersection(a) are both absent or the
\* same interval, and a.overlaps(b) is true exactly when a.intersection(b)
\* is present.
C10_IntersectionSymmetric ==
    pInter # None =>
        /\ Val(pInter).ab = Val(pInter).ba
        /\ Val(pInter).overlaps <=> (Val(pInter).ab # None)

\* Two spans that touch where self ends: the intersection is that point.
C10_Witness ==
    /\ pInter # None
    /\ ~has_zero_length(pa) /\ ~has_zero_length(pb)
    /\ pa.end = pb.begin
    /\ Val(pInter).ab = Some(TimeInterval(pa.end, pa.end))
    /\ Val(pInter).overlaps

\* C11: add(x) of a TimeInterval x succeeds exactly when x lies within the
\* list bounds that are set and, for every member m, x.end <= m.begin or
\* x.begin >= m.end; an x within the bounds in any other arrangement with
\* a member is rejected by the overlap check, with the list left as it was.
C11_AddSucceedsIffDisjoint ==
    (op.name = "add" /\ op.arg.isInterval) =>
        LET x == op.arg.iv
            inBounds ==
                /\ pre.begin # None => x.begin >= Val(pre.begin)
                /\ pre.end # None => x.end <= Val(pre.end)
            clear ==
                \A k \in 1..Len(pre.items) :
                    x.end <= pre.items[k].begin \/ x.begin >= pre.items[k].end
        IN  /\ (err = OK) <=> (inBounds /\ clear)
            /\ (inBounds /\ ~clear) =>
                   /\ err = ValueError
                   /\ _check_boundaries(pre.begin, pre.end, op.arg) = OK
                   /\ items = pre.items
            /\ err = OK => Len(items) = Len(pre.items) + 1

\* An add of a point strictly inside a span of the list, within both list
\* bounds, that was rejected.
C11_Witness ==
    /\ op.name = "add" /\ op.arg.isInterval /\ err = ValueError
    /\ has_zero_length(op.arg.iv)
    /\ pre.begin # None /\ pre.end # None
    /\ op.arg.iv.begin >= Val(pre.begin) /\ op.arg.iv.end <= Val(pre.end)
    /\ \E k \in 1..Len(pre.items) :
          pre.items[k].begin < op.arg.iv.begin
          /\ op.arg.iv.end < pre.items[k].end

\* C12: for all valid intervals a and b, a.adjacent_before(b) is true
\* exactly when a.end = b.begin, and whenever it is true a.intersection(b)
\* is present and is the zero-length interval at that shared point.
C12_AdjacentBeforeTouches ==
    pAdj # None =>
        /\ Val(pAdj).before <=> (pa.end = pb.begin)
        /\ Val(pAdj).before =>
               Val(pAdj).inter = Some(TimeInterval(pa.end, pa.end))

\* A point that sits where a span begins: adjacent before it, and the
\* intersection is that point.
C12_Witness ==
    /\ pAdj # None
    /\ has_zero_length(pa) /\ ~has_zero_length(pb)
    /\ Val(pAdj).before
    /\ Val(pAdj).inter = Some(TimeInterval(pb.begin, pb.begin))

\* C13: fix_zero_length_intervals terminates: every outer iteration leaves
\* the scan index greater than it found it (a run found at i that extends
\* to j is left with the index beyond i), each iteration starts where the
\* one before left the index, and there are at most max_index - min_index
\* iterations, the one that raised included.
C13_ScanAdvances ==
    op.name = "fix" =>
        LET lo == EffectiveMin(pre.items, op.lo)
            hi == EffectiveMax(pre.items, op.hi)
        IN  /\ \A k \in 1..Len(scan) :
                  scan[k].next > scan[k].i /\ scan[k].i \in lo..(hi - 1)
            /\ \A k \in 1..(Len(scan) - 1) : scan[k + 1].i = scan[k].next
            /\ scan # <<>> => scan[1].i = lo
            /\ \A r \in 1..Len(runs) : runs[r].j > runs[r].i
            /\ Len(scan) + (IF err = OK THEN 0 ELSE 1) <= hi - lo
            /\ (err = OK /\ scan # <<>>) => scan[Len(scan)].next >= hi

\* A call that returned normally after a run that took the scan over two
\* members at once and after a further iteration behind it.
C13_Witness ==
    /\ op.name = "fix" /\ err = OK
    /\ \E k \in 1..(Len(scan) - 1) :
          /\ scan[k].next >= scan[k].i + 2
          /\ scan[k + 1].i = scan[k].next
    /\ \E r \in 1..Len(runs) : runs[r].j >= runs[r].i + 2

\* C14: fix_zero_length_intervals(offset, min_index, max_index) with both
\* indices given, 0 <= min_index <= max_index <= len, leaves every member
\* at an index below min_index or at or above max_index as it was; with
\* min_index = max_index, max_index = 0 included, nothing changes.
C14_OnlyRangeTouched ==
    (op.name = "fix" /\ op.lo # None /\ op.hi # None) =>
        /\ Len(items) = Len(pre.items)
        /\ \A k \in 1..Len(pre.items) :
              (k - 1 < Val(op.lo) \/ k - 1 >= Val(op.hi)) =>
                  items[k] = pre.items[k]

\* What C15 says of the run from i to the absorbing member j, told of the
\* list now against the list was; off is the offset and zeros the number
\* of zero-length members of the run.
RunContiguous(was, now, i, j, off, zeros) ==
    /\ \A k \in i..(j - 1) : At(now, k).end = At(now, k + 1).begin
    /\ At(now, j).end = At(was, j).end
    /\ At(now, j).begin = At(was, j).begin + off * zeros
    /\ \A k \in i..(j - 1) :
          ~has_zero_length(At(was, k)) =>
              length(At(now, k)) = length(At(was, k))

\* C15 as stated: after fix_zero_length_intervals has repaired a run that
\* starts at a zero-length member i and ends at an absorbing member j,
\* each member k with i <= k < j ends where member k + 1 begins, member j
\* has the end it had and a begin moved right by offset times the number
\* of zero-length members of the run, and every member of the run that
\* had a length has kept it.
C15_RunContiguous ==
    (op.name = "fix" /\ err = OK) =>
        \A r \in 1..Len(runs), t \in 1..Len(scan) :
            RepairedAbsorbed(r, t) =>
                RunContiguous(Before(t), items, runs[r].i, runs[r].j,
                              Val(op.x), runs[r].zeros)

\* C15 as amended: the statement holds of the list as the repair of the
\* run leaves it, and of the list as the call leaves it when the absorbing
\* member was longer than the slack of the run; an absorbing member left
\* with no length starts the next run, which moves its end.
C15_RunContiguousAsRepaired ==
    op.name = "fix" =>
        \A r \in 1..Len(runs), t \in 1..Len(scan) :
            RepairedAbsorbed(r, t) =>
                /\ has_zero_length(At(Before(t), runs[r].i))
                /\ RunContiguous(Before(t), scan[t].items, runs[r].i,
                                 runs[r].j, Val(op.x), runs[r].zeros)
                /\ (err = OK /\ ~has_zero_length(At(scan[t].items, runs[r].j)))
                      => RunContiguous(Before(t), items, runs[r].i,
                                       runs[r].j, Val(op.x), runs[r].zeros)

\* A call that returned normally after the repair of a run of a
\* zero-length member and a member shorter than the slack, ended by an
\* absorbing member longer than the slack.
C15_Witness ==
    /\ op.name = "fix" /\ err = OK
    /\ \E r \in 1..Len(runs), t \in 1..Len(scan) :
          /\ RepairedAbsorbed(r, t)
          /\ \E k \in runs[r].i..(runs[r].j - 1) :
                ~has_zero_length(At(Before(t), k))
          /\ ~has_zero_length(At(scan[t].items, runs[r].j))
          /\ scan[t].items # Before(t)

\* C16: for all valid intervals a and b, a.intersection(b) is the interval
\* from max(a.begin, b.begin) to min(a.end, b.end) when the first is not
\* greater than the second and is absent when it is, and the call leaves
\* a and b as they were.
C16_IntersectionIsMaxMin ==
    [][pInter' # pInter =>
          LET lo == IF pa.begin >= pb.begin THEN pa.begin ELSE pb.begin
              hi == IF pa.end <= pb.end THEN pa.end ELSE pb.end
          IN  /\ Val(pInter').ab
                    = IF lo <= hi THEN Some(TimeInterval(lo, hi)) ELSE None
              /\ pa' = pa
              /\ pb' = pb]_vars

\* A span strictly inside the span it was intersected with: the
\* intersection is the inner span.
C16_Witness ==
    /\ pInter # None
    /\ pa.begin < pb.begin /\ pb.begin < pb.end /\ pb.end < pa.end
    /\ Val(pInter).ab = Some(pb)

====
